---- MODULE Spec2Model ----
(***************************************************************************)
(* Model of the finance tracker bot (src/bot.py).                          *)
(*                                                                         *)
(* A calendar date is a record [year, month, day], as datetime.date is.    *)
(* A text is a sequence of one-character strings.  A spreadsheet cell, as  *)
(* get_all_records() hands it over, is [kind |-> "str", val |-> text] or   *)
(* [kind |-> "num", val |-> n]: gspread turns every cell that reads as a   *)
(* number into a number, so a cell that is still a string is one float()   *)
(* rejects.  Amounts are drawn from the integers, where float addition is  *)
(* exact.                                                                  *)
(***************************************************************************)
EXTENDS Integers, Sequences, FiniteSets, TLC

VARIABLES
    env,             \* the four environment values read at lines 24-27
    phase,           \* "boot", "config_error", "store_error" or "running"
    expenses_sheet,  \* rows of the worksheet "Expenses"
    earnings_sheet,  \* rows of the worksheet "Earnings"
    today,           \* the host's local date
    last,            \* what the last handler or job run did
    probe            \* the call and result of a helper under test

vars == <<env, phase, expenses_sheet, earnings_sheet, today, last, probe>>

\* ------------------------------------------------------------------ bounds

\* Days on each side of a calendar landmark that get_week_range is tried on.
WeekWindow == 20

\* Rows in the two row-sets together, when calculate_summary is tried alone.
MaxSheetRows == 3

\* Rows the handlers may append in one run of the bot.
MaxRows == 2

\* Days the host clock may advance in one run of the bot.
MaxDays == 1

\* Weekly triggers tried for the scheduled job.
MaxWeeks == 3

\* ------------------------------------------------- datetime.date arithmetic

MAXORDINAL == 3652059

DI4Y == 4 * 365 + 1

DI100Y == 25 * DI4Y - 1

DI400Y == 4 * DI100Y + 1

DAYS_IN_MONTH == <<31, 28, 31, 30, 31, 30, 31, 31, 30, 31, 30, 31>>

DAYS_BEFORE_MONTH == <<0, 31, 59, 90, 120, 151, 181, 212, 243, 273, 304, 334>>

is_leap(y) == y % 4 = 0 /\ (y % 100 # 0 \/ y % 400 = 0)

days_in_month(y, m) == IF m = 2 /\ is_leap(y) THEN 29 ELSE DAYS_IN_MONTH[m]

days_before_year(year) ==
    LET y == year - 1
    IN  y * 365 + (y \div 4) - (y \div 100) + (y \div 400)

days_before_month(y, m) ==
    DAYS_BEFORE_MONTH[m] + (IF m > 2 /\ is_leap(y) THEN 1 ELSE 0)

MkDate(y, m, d) == [year |-> y, month |-> m, day |-> d]

\* date(y, m, d) raises ValueError unless this holds.
ValidYMD(y, m, d) ==
    /\ y >= 1 /\ y <= 9999
    /\ m >= 1 /\ m <= 12
    /\ d >= 1 /\ d <= days_in_month(y, m)

toordinal(dt) ==
    days_before_year(dt.year) + days_before_month(dt.year, dt.month) + dt.day

fromordinal(ord) ==
    LET n0    == ord - 1
        n400  == n0 \div DI400Y
        r400  == n0 % DI400Y
        n100  == r400 \div DI100Y
        r100  == r400 % DI100Y
        n4    == r100 \div DI4Y
        r4    == r100 % DI4Y
        n1    == r4 \div 365
        n     == r4 % 365
        year  == n400 * 400 + 1 + n100 * 100 + n4 * 4 + n1
        leapyear == n1 = 3 /\ (n4 # 24 \/ n100 = 3)
        leapadd(m) == IF m > 2 /\ leapyear THEN 1 ELSE 0
        m0    == (n + 50) \div 32
        p0    == DAYS_BEFORE_MONTH[m0] + leapadd(m0)
        month == IF p0 > n THEN m0 - 1 ELSE m0
        prec  == IF p0 > n
                 THEN p0 - (DAYS_IN_MONTH[m0 - 1]
                            + (IF m0 - 1 = 2 /\ leapyear THEN 1 ELSE 0))
                 ELSE p0
    IN  IF n1 = 4 \/ n100 = 4
        THEN MkDate(year - 1, 12, 31)
        ELSE MkDate(year, month, n - prec + 1)

\* date.weekday(): Monday is 0, Sunday is 6.
weekday(dt) == (toordinal(dt) + 6) % 7

\* date + timedelta(days=k): a value, or OverflowError outside date.min..date.max.
Raised(kind) == [raised |-> kind]

InRange(o) == o >= 1 /\ o <= MAXORDINAL

\* Comparison of dates, as datetime.date compares (year, month, day).
DateLE(a, b) ==
    \/ a.year < b.year
    \/ a.year = b.year /\ a.month < b.month
    \/ a.year = b.year /\ a.month = b.month /\ a.day <= b.day

\* ---------------------------------------------------------- get_week_range

\* The week that starts on the day of ordinal s: start and start + 6 days,
\* each a date or an OverflowError.
WeekFrom(s) ==
    IF ~InRange(s) \/ ~InRange(s + 6)
    THEN Raised("OverflowError")
    ELSE [raised |-> "none", start |-> fromordinal(s), end |-> fromordinal(s + 6)]

get_week_range_NoMondayOffset(date) == WeekFrom(toordinal(date))

get_week_range(date) == WeekFrom(toordinal(date) - weekday(date))

\* --------------------------------------------------------------------- text

DigitChars == <<"0", "1", "2", "3", "4", "5", "6", "7", "8", "9">>

IsDigit(c) == \E i \in 1..10 : DigitChars[i] = c

DigitVal(c) == (CHOOSE i \in 1..10 : DigitChars[i] = c) - 1

AllDigits(f) == \A i \in 1..Len(f) : IsDigit(f[i])

\* int() of a run of digits.
RECURSIVE IntOf(_)
IntOf(f) ==
    IF Len(f) = 0 THEN 0
    ELSE 10 * IntOf(SubSeq(f, 1, Len(f) - 1)) + DigitVal(f[Len(f)])

\* The pieces of s between occurrences of the character sep.
RECURSIVE Split(_, _)
Split(s, sep) ==
    IF \A i \in 1..Len(s) : s[i] # sep
    THEN <<s>>
    ELSE LET i == CHOOSE k \in 1..Len(s) :
                      s[k] = sep /\ \A j \in 1..(k - 1) : s[j] # sep
         IN  <<SubSeq(s, 1, i - 1)>> \o Split(SubSeq(s, i + 1, Len(s)), sep)

\* "%02d" and "%04d".
Pad2(n) == <<DigitChars[((n \div 10) % 10) + 1], DigitChars[(n % 10) + 1]>>

Pad4(n) == Pad2(n \div 100) \o Pad2(n % 100)

\* str(n) for 0 <= n <= 9999.
RECURSIVE Str(_)
Str(n) == IF n < 10 THEN <<DigitChars[n + 1]>>
          ELSE Str(n \div 10) \o <<DigitChars[(n % 10) + 1]>>

StrCell(t) == [kind |-> "str", val |-> t]

NumCell(n) == [kind |-> "num", val |-> n]

\* -------------------------------------------- datetime.strptime, and parsing

\* The three directives, as the regular expressions strptime compiles them to:
\* %Y is \d\d\d\d, %m is 1[0-2]|0[1-9]|[1-9], %d is 3[01]|[12]\d|0[1-9]|[1-9]| [1-9].
MatchesDirective(dir, f) ==
    CASE dir = "Y" -> Len(f) = 4 /\ AllDigits(f)
      [] dir = "m" -> Len(f) \in {1, 2} /\ AllDigits(f) /\ IntOf(f) \in 1..12
      [] dir = "d" -> \/ Len(f) \in {1, 2} /\ AllDigits(f) /\ IntOf(f) \in 1..31
                      \/ Len(f) = 2 /\ f[1] = " " /\ IsDigit(f[2]) /\ f[2] # "0"

DirectiveVal(dir, f) == IF f[1] = " " THEN DigitVal(f[2]) ELSE IntOf(f)

\* datetime.datetime.strptime(cell, fmt).date(): the whole text must match the
\* format, and the fields must name a date that exists.
\* date(y, m, d)
NewDate(y, m, d) ==
    IF ValidYMD(y, m, d)
    THEN [raised |-> "none", date |-> MkDate(y, m, d)]
    ELSE Raised("ValueError")

\* The number in the field that the directive dir of the format stands for.
FieldVal(dir, fs, dirs) == DirectiveVal(dir, fs[CHOOSE i \in 1..3 : dirs[i] = dir])

FieldsToDate(fs, dirs) ==
    IF Len(fs) # 3 \/ \E i \in 1..3 : ~MatchesDirective(dirs[i], fs[i])
    THEN Raised("ValueError")
    ELSE NewDate(FieldVal("Y", fs, dirs), FieldVal("m", fs, dirs), FieldVal("d", fs, dirs))

strptime(cell, fmt) ==
    IF cell.kind # "str" THEN Raised("TypeError")
    ELSE FieldsToDate(Split(cell.val, fmt.sep), fmt.dirs)

ISO == [sep |-> "-", dirs |-> <<"Y", "m", "d">>]

DayFirst == [sep |-> "/", dirs |-> <<"d", "m", "Y">>]

MonthFirst == [sep |-> "/", dirs |-> <<"m", "d", "Y">>]

FORMATS_MonthFirstEarlier == <<ISO, MonthFirst, DayFirst>>

FORMATS == <<ISO, DayFirst, MonthFirst>>

\* The loop of safe_parse_date from format i on: r is what format i gave.
RECURSIVE TryFormats(_, _)
RECURSIVE ReturnOrContinue(_, _, _)
ReturnOrContinue(r, cell, i) ==
    IF r.raised = "none" THEN r ELSE TryFormats(cell, i + 1)

TryFormats(cell, i) ==
    IF i > Len(FORMATS)
    THEN Raised("ValueError")
    ELSE ReturnOrContinue(strptime(cell, FORMATS[i]), cell, i)

safe_parse_date(date_str) == TryFormats(date_str, 1)

\* --------------------------------------------- get_week_range, tried alone

Idle == [op |-> "none"]

NoProbe == [fn |-> "none"]

Unset == [TELEGRAM_TOKEN |-> "None", SHEET_ID |-> "None",
          GOOGLE_CREDENTIALS |-> "None", CHAT_ID |-> "None"]

Ord_2024_02_29 == toordinal(MkDate(2024, 2, 29))

Ord_2024_12_31 == toordinal(MkDate(2024, 12, 31))

\* Dates around the first and the last day a date can hold, a leap day and a
\* turn of the year.
WeekDates ==
    { fromordinal(o) : o \in
        (1..WeekWindow)
        \cup ((MAXORDINAL - WeekWindow + 1)..MAXORDINAL)
        \cup ((Ord_2024_02_29 - WeekWindow)..(Ord_2024_02_29 + WeekWindow))
        \cup ((Ord_2024_12_31 - WeekWindow)..(Ord_2024_12_31 + WeekWindow)) }

Quiet ==
    /\ env = Unset
    /\ phase = "boot"
    /\ expenses_sheet = <<>>
    /\ earnings_sheet = <<>>
    /\ today = MkDate(2024, 6, 9)
    /\ last = Idle

InitWeek ==
    /\ Quiet
    /\ \E d \in WeekDates : probe = [fn |-> "get_week_range", pc |-> "call", arg |-> d]

CallWeekRange ==
    /\ probe.fn = "get_week_range" /\ probe.pc = "call"
    /\ probe' = [fn |-> probe.fn, pc |-> "ret", arg |-> probe.arg,
                 res |-> get_week_range(probe.arg)]
    /\ UNCHANGED <<env, phase, expenses_sheet, earnings_sheet, today, last>>

NextWeek == CallWeekRange

SpecWeek == InitWeek /\ [][NextWeek]_vars

WeekReturned == probe.fn = "get_week_range" /\ probe.pc = "ret"

\* The Sunday of the week of d is a date: no later than 9999-12-31.
SundayRepresentable(d) == toordinal(d) - weekday(d) + 6 <= MAXORDINAL

WeekContract(d, r) ==
    /\ r.raised = "none"
    /\ weekday(r.start) = 0
    /\ toordinal(r.end) = toordinal(r.start) + 6
    /\ DateLE(r.start, d) /\ DateLE(d, r.end)

\* C1 as stated: for every calendar date D, get_week_range(D) returns
\* (start, end) with start a Monday, end = start + 6 days, start <= D <= end.
C1_EveryDate == WeekReturned => WeekContract(probe.arg, probe.res)

\* C1, amended: for every calendar date D whose week ends no later than
\* 9999-12-31 (every D up to 9999-12-26), get_week_range(D) returns
\* (start, end) with start a Monday, end = start + 6 days and start <= D <= end;
\* for the five later dates it raises OverflowError.
C1_WeekRange ==
    WeekReturned =>
        IF SundayRepresentable(probe.arg)
        THEN WeekContract(probe.arg, probe.res)
        ELSE probe.res = Raised("OverflowError")

\* A Wednesday whose week crosses a leap day's month end: 2024-02-28 lies in
\* 2024-02-26..2024-03-03.
C1_Witness ==
    /\ WeekReturned
    /\ probe.arg = MkDate(2024, 2, 28)
    /\ probe.res = [raised |-> "none", start |-> MkDate(2024, 2, 26),
                    end |-> MkDate(2024, 3, 3)]

\* -------------------------------------------- safe_parse_date, tried alone

IsoText(y, m, d) == Pad4(y) \o <<"-">> \o Pad2(m) \o <<"-">> \o Pad2(d)

\* The text "a/b/y", two digits for a and for b.
SlashText(a, b, y) == Pad2(a) \o <<"/">> \o Pad2(b) \o <<"/">> \o Pad4(y)

\* The same without leading zeros, as a hand-typed cell may have it.
SlashTextBare(a, b, y) == Str(a) \o <<"/">> \o Str(b) \o <<"/">> \o Pad4(y)

ProbeYears == {2023, 2024}

ProbeFields == {2, 3, 4, 12, 13, 29, 31}

OddTexts ==
    { <<>>,
      <<"a", "b", "c">>,
      <<"2", "0", "2", "4", "/", "0", "6", "/", "0", "3">>,
      <<"0", "3", "-", "0", "4", "-", "2", "0", "2", "4">>,
      <<"0", "3", "/", "0", "4", "/", "2", "4">>,
      <<"0", "0", "0", "0", "-", "0", "1", "-", "0", "1">>,
      <<"2", "0", "2", "4", "-", "6", "-", "3">>,
      <<" ", "3", "/", "4", "/", "2", "0", "2", "4">>,
      <<"2", "0", "2", "4", "-", "0", "6", "-", "0", "3", "x">>,
      <<"2", "0", "2", "4", "-", "0", "6", "-", "0", "3", "6">>,
      <<"2", "0", "2", "4", "-", "0", "6", "-", "0", "0">>,
      <<"0", "0", "/", "0", "4", "/", "2", "0", "2", "4">>,
      <<"0", "3", "/", "0", "4", "/", "2", "0", "2", "4", "/">> }

DateCells ==
    { StrCell(IsoText(y, m, d)) :
          y \in ProbeYears, m \in {2, 6, 12, 13}, d \in {3, 29, 30, 31, 45} }
    \cup { StrCell(SlashText(a, b, y)) :
          a \in ProbeFields, b \in ProbeFields, y \in ProbeYears }
    \cup { StrCell(SlashTextBare(a, b, 2024)) : a \in {3, 13}, b \in {4, 13} }
    \cup { StrCell(t) : t \in OddTexts }
    \cup { NumCell(2024), NumCell(45447) }

InitParse ==
    /\ Quiet
    /\ \E c \in DateCells : probe = [fn |-> "safe_parse_date", pc |-> "call", arg |-> c]

CallParseDate ==
    /\ probe.fn = "safe_parse_date" /\ probe.pc = "call"
    /\ probe' = [fn |-> probe.fn, pc |-> "ret", arg |-> probe.arg,
                 res |-> safe_parse_date(probe.arg)]
    /\ UNCHANGED <<env, phase, expenses_sheet, earnings_sheet, today, last>>

NextParse == CallParseDate

SpecParse == InitParse /\ [][NextParse]_vars

ParseReturned == probe.fn = "safe_parse_date" /\ probe.pc = "ret"

Parsed(r) == r.raised = "none"

\* C6: safe_parse_date returns the first successful parse in the order ISO,
\* day-first slash, month-first slash: "a/b/y" with a and b both <= 12 is read
\* as day a of month b; the month-first reading is returned only when the
\* day-first reading is no date; and every text that matches none of the three
\* formats fails with the one error kind, ValueError.
C6_FirstMatchWins ==
    ParseReturned =>
        LET c   == probe.arg
            r   == probe.res
            iso == strptime(c, ISO)
            df  == strptime(c, DayFirst)
            mf  == strptime(c, MonthFirst)
        IN  /\ Parsed(iso) => r = iso
            /\ ~Parsed(iso) /\ Parsed(df) => r = df
            /\ ~Parsed(iso) /\ ~Parsed(df) /\ Parsed(mf) => r = mf
            /\ ~Parsed(iso) /\ ~Parsed(df) /\ ~Parsed(mf) => r = Raised("ValueError")
            /\ \A a \in 1..12, b \in 1..12, y \in ProbeYears :
                   c = StrCell(SlashText(a, b, y)) =>
                       r = [raised |-> "none", date |-> MkDate(y, b, a)]
            /\ \A a \in 1..12, b \in 13..31, y \in ProbeYears :
                   c = StrCell(SlashText(a, b, y)) =>
                       IF ValidYMD(y, a, b)
                       THEN r = [raised |-> "none", date |-> MkDate(y, a, b)]
                       ELSE r = Raised("ValueError")

\* "03/04/2024" was parsed, and read as the 3rd of April.
C6_Witness ==
    /\ ParseReturned
    /\ probe.arg = StrCell(SlashText(3, 4, 2024))
    /\ probe.res = [raised |-> "none", date |-> MkDate(2024, 4, 3)]

\* ------------------------------------------------------- calculate_summary

\* float(cell): a cell that gspread left a string is no number.
float(cell) ==
    IF cell.kind = "num" THEN [raised |-> "none", val |-> cell.val]
    ELSE Raised("ValueError")

InSpan_EndExclusive(week_start, row_date, week_end) ==
    DateLE(week_start, row_date) /\ DateLE(row_date, week_end) /\ row_date # week_end

\* week_start <= row_date <= week_end
InSpan(week_start, row_date, week_end) ==
    DateLE(week_start, row_date) /\ DateLE(row_date, week_end)

\* total += float(row['Amount'])
AddAmount(a) ==
    IF a.raised # "none" THEN Raised(a.raised)
    ELSE [raised |-> "none", add |-> a.val]

\* The try of one row once row_date is parsed (d).
AddIfInSpan(d, row, week_start, week_end) ==
    IF d.raised # "none" THEN Raised(d.raised)
    ELSE IF InSpan(week_start, d.date, week_end)
         THEN AddAmount(float(row.Amount))
         ELSE [raised |-> "none", add |-> 0]

\* The body of the try of one row: what it adds to the total, or what it raises.
RowBody(row, week_start, week_end) ==
    AddIfInSpan(safe_parse_date(row.Date), row, week_start, week_end)

\* A loop's state: the running total, the rows logged as skipped, and the
\* exception that left the loop, if one did.
LoopStart == [total |-> 0, errors |-> 0, raised |-> "none"]

OnRowError_Propagate(acc, kind) == [acc EXCEPT !.raised = kind]

\* except Exception as e: logging.error(...), and on to the next row.
OnRowError(acc, kind) == [acc EXCEPT !.errors = @ + 1]

\* The loop's state after a row whose try gave b.
AfterRow(acc, b) ==
    IF b.raised = "none"
    THEN [acc EXCEPT !.total = @ + b.add]
    ELSE OnRowError(acc, b.raised)

RECURSIVE SumRows(_, _, _, _, _)
SumRows(rows, i, acc, week_start, week_end) ==
    IF i > Len(rows) \/ acc.raised # "none" THEN acc
    ELSE SumRows(rows, i + 1, AfterRow(acc, RowBody(rows[i], week_start, week_end)),
                 week_start, week_end)

\* Lines 89-90, from the two loops' results.
Totals(e, x) ==
    IF e.raised # "none" THEN Raised(e.raised)
    ELSE IF x.raised # "none" THEN Raised(x.raised)
    ELSE [raised |-> "none",
          total_earnings |-> e.total,
          total_expenses |-> x.total,
          balance |-> e.total - x.total,
          errors |-> e.errors + x.errors]

calculate_summary(week_start, week_end, earnings_data, expenses_data) ==
    Totals(SumRows(earnings_data, 1, LoopStart, week_start, week_end),
           SumRows(expenses_data, 1, LoopStart, week_start, week_end))

\* ------------------------------------------ calculate_summary, tried alone

NoText == StrCell(<<>>)

PoolRow(date_cell, amount_cell) ==
    [Date |-> date_cell, Day |-> NoText, Amount |-> amount_cell, Notes |-> NoText]

\* Rows on the first and last day of the week 2024-06-03..2024-06-09 (the last
\* is the eve of the week 2024-06-10..2024-06-16), inside it, on the day after
\* it, in a slash format, and malformed.
RowPool ==
    { PoolRow(StrCell(IsoText(2024, 6, 3)), NumCell(100)),
      PoolRow(StrCell(IsoText(2024, 6, 9)), NumCell(200)),
      PoolRow(StrCell(IsoText(2024, 6, 5)), NumCell(50)),
      PoolRow(StrCell(IsoText(2024, 6, 10)), NumCell(9)),
      PoolRow(StrCell(SlashText(5, 6, 2024)), NumCell(13)),
      PoolRow(StrCell(IsoText(2024, 13, 45)), NumCell(11)),
      PoolRow(StrCell(IsoText(2024, 6, 4)), StrCell(<<"a", "b", "c">>)) }

RECURSIVE SeqsUpTo(_, _)
SeqsUpTo(S, n) ==
    IF n = 0 THEN { <<>> }
    ELSE LET shorter == SeqsUpTo(S, n - 1)
         IN  shorter \cup { Append(q, x) : q \in shorter, x \in S }

SpanStarts == { MkDate(2024, 6, 3), MkDate(2024, 6, 10) }

InitSummary ==
    /\ env = Unset
    /\ phase = "boot"
    /\ today = MkDate(2024, 6, 9)
    /\ last = Idle
    /\ \E k \in 0..MaxSheetRows :
           /\ earnings_sheet \in [1..k -> RowPool]
           /\ expenses_sheet \in SeqsUpTo(RowPool, MaxSheetRows - k)
    /\ \E ws \in SpanStarts :
           probe = [fn |-> "calculate_summary", pc |-> "call",
                    arg |-> [week_start |-> ws,
                             week_end |-> fromordinal(toordinal(ws) + 6)]]

CallCalculateSummary ==
    /\ probe.fn = "calculate_summary" /\ probe.pc = "call"
    /\ probe' = [fn |-> probe.fn, pc |-> "ret", arg |-> probe.arg,
                 res |-> calculate_summary(probe.arg.week_start, probe.arg.week_end,
                                           earnings_sheet, expenses_sheet)]
    /\ UNCHANGED <<env, phase, expenses_sheet, earnings_sheet, today, last>>

NextSummary == CallCalculateSummary

SpecSummary == InitSummary /\ [][NextSummary]_vars

SummaryReturned == probe.fn = "calculate_summary" /\ probe.pc = "ret"

\* rows without the row at position i.
Remove(rows, i) == SubSeq(rows, 1, i - 1) \o SubSeq(rows, i + 1, Len(rows))

TotalsOf(earnings_data, expenses_data) ==
    calculate_summary(probe.arg.week_start, probe.arg.week_end,
                      earnings_data, expenses_data)

\* The row's date reads, in the first format that accepts it, as a day of the
\* span, counted in days.
DatedInside(row) ==
    LET d == safe_parse_date(row.Date)
    IN  /\ d.raised = "none"
        /\ toordinal(probe.arg.week_start) <= toordinal(d.date)
        /\ toordinal(d.date) <= toordinal(probe.arg.week_end)

HasAmount(row) == row.Amount.kind = "num"

\* C2: calculate_summary adds a row's amount to its set's total if and only if
\* the row's parsed date lies in [week_start, week_end], both ends included:
\* taking a row away lowers its set's total by the row's amount when the row is
\* dated inside the span and leaves it alone otherwise; the balance is the
\* earnings total minus the expenses total; and earnings 100 and 200 with an
\* expense of 50 in the week 2024-06-03..2024-06-09 give 300, 50 and 250.
C2_InclusiveSpan ==
    SummaryReturned =>
        LET r == probe.res
        IN  /\ r.raised = "none"
            /\ r.balance = r.total_earnings - r.total_expenses
            /\ \A i \in 1..Len(earnings_sheet) :
                   HasAmount(earnings_sheet[i]) =>
                       r.total_earnings
                         - TotalsOf(Remove(earnings_sheet, i), expenses_sheet).total_earnings
                       = IF DatedInside(earnings_sheet[i])
                         THEN earnings_sheet[i].Amount.val ELSE 0
            /\ \A i \in 1..Len(expenses_sheet) :
                   HasAmount(expenses_sheet[i]) =>
                       r.total_expenses
                         - TotalsOf(earnings_sheet, Remove(expenses_sheet, i)).total_expenses
                       = IF DatedInside(expenses_sheet[i])
                         THEN expenses_sheet[i].Amount.val ELSE 0
            /\ Len(earnings_sheet) = 0 => r.total_earnings = 0
            /\ Len(expenses_sheet) = 0 => r.total_expenses = 0

ScenarioEarnings ==
    << PoolRow(StrCell(IsoText(2024, 6, 3)), NumCell(100)),
       PoolRow(StrCell(IsoText(2024, 6, 9)), NumCell(200)) >>

ScenarioExpenses == << PoolRow(StrCell(IsoText(2024, 6, 5)), NumCell(50)) >>

\* The scenario of the claim: rows on the Monday and the Sunday of the span.
C2_Witness ==
    /\ SummaryReturned
    /\ probe.arg.week_start = MkDate(2024, 6, 3)
    /\ earnings_sheet = ScenarioEarnings
    /\ expenses_sheet = ScenarioExpenses
    /\ probe.res.total_earnings = 300
    /\ probe.res.total_expenses = 50
    /\ probe.res.balance = 250

\* No format accepts the row's date, or its amount is no number.
Malformed(row) ==
    \/ /\ strptime(row.Date, ISO).raised # "none"
       /\ strptime(row.Date, DayFirst).raised # "none"
       /\ strptime(row.Date, MonthFirst).raised # "none"
    \/ ~HasAmount(row)

SameTotals(r, q) ==
    /\ r.raised = "none" /\ q.raised = "none"
    /\ r.total_earnings = q.total_earnings
    /\ r.total_expenses = q.total_expenses
    /\ r.balance = q.balance

WellFormed(row) == ~Malformed(row)

\* C3: calculate_summary skips a malformed row without aborting: it returns,
\* and its totals are those of the row-sets without the malformed row, wherever
\* in its row-set the row sits, and those of the well-formed rows alone.
C3_SkipsMalformed ==
    SummaryReturned =>
        LET r == probe.res
        IN  /\ r.raised = "none"
            /\ \A i \in 1..Len(earnings_sheet) :
                   Malformed(earnings_sheet[i]) =>
                       SameTotals(r, TotalsOf(Remove(earnings_sheet, i), expenses_sheet))
            /\ \A i \in 1..Len(expenses_sheet) :
                   Malformed(expenses_sheet[i]) =>
                       SameTotals(r, TotalsOf(earnings_sheet, Remove(expenses_sheet, i)))
            /\ SameTotals(r, TotalsOf(SelectSeq(earnings_sheet, WellFormed),
                                      SelectSeq(expenses_sheet, WellFormed)))

\* "2024-13-45" sits between two rows of the span, and the total is theirs.
C3_Witness ==
    /\ SummaryReturned
    /\ probe.arg.week_start = MkDate(2024, 6, 3)
    /\ earnings_sheet = << PoolRow(StrCell(IsoText(2024, 6, 3)), NumCell(100)),
                           PoolRow(StrCell(IsoText(2024, 13, 45)), NumCell(11)),
                           PoolRow(StrCell(IsoText(2024, 6, 9)), NumCell(200)) >>
    /\ probe.res.total_earnings = 300
    /\ probe.res.errors = 1

\* ------------------------------------------------------------ the handlers

\* A command's arguments are texts.  Those drawn here are runs of digits, which
\* float() reads as that number, and words, which it rejects.
float_text(t) ==
    IF Len(t) > 0 /\ AllDigits(t)
    THEN [raised |-> "none", val |-> IntOf(t)]
    ELSE Raised("ValueError")

\* " ".join(words)
RECURSIVE Join(_)
Join(words) ==
    IF Len(words) = 0 THEN <<>>
    ELSE IF Len(words) = 1 THEN words[1]
    ELSE words[1] \o <<" ">> \o Join(Tail(words))

\* now.strftime("%Y-%m-%d")
strftime_date(d) == IsoText(d.year, d.month, d.day)

DAY_NAMES == <<"Monday", "Tuesday", "Wednesday", "Thursday", "Friday",
               "Saturday", "Sunday">>

\* now.strftime("%A")
strftime_day(d) == DAY_NAMES[weekday(d) + 1]

\* One call of reply_text or send_message: the message, and whether the chat
\* platform delivered it (the call raises when it does not).
Sent(msg, ok) == [msg |-> msg, delivered |-> ok]

\* float(context.args[0])
AmountArg(args) ==
    IF Len(args) < 1 THEN Raised("IndexError") ELSE float_text(args[1])

\* " ".join(context.args[k:]) if len(context.args) > k else ""
NotesFrom(args, k) ==
    IF Len(args) > k THEN Join(SubSeq(args, k + 1, Len(args))) ELSE <<>>

SpendFields_CategoryOptional(a, args) ==
    IF a.raised # "none" THEN Raised(a.raised)
    ELSE [raised |-> "none", amount |-> a.val,
          category |-> IF Len(args) > 1 THEN args[2] ELSE <<>>,
          notes |-> NotesFrom(args, 2)]

\* Lines 107-109 after float(): category and notes, or the exception raised.
SpendFields(a, args) ==
    IF a.raised # "none" THEN Raised(a.raised)
    ELSE IF Len(args) < 2 THEN Raised("IndexError")
    ELSE [raised |-> "none", amount |-> a.val, category |-> args[2],
          notes |-> NotesFrom(args, 2)]

\* Lines 107-109: amount, category and notes, or the exception they raise.
ParseSpend(args) == SpendFields(AmountArg(args), args)

\* Lines 123-124 after float().
EarnFields(a, args) ==
    IF a.raised # "none" THEN Raised(a.raised)
    ELSE [raised |-> "none", amount |-> a.val, notes |-> NotesFrom(args, 1)]

\* Lines 123-124.
ParseEarn(args) == EarnFields(AmountArg(args), args)

\* The row as get_all_records() reads it back: the date a string, the amount a
\* number.
ExpenseRow(now, p) ==
    [Date |-> StrCell(strftime_date(now)), Day |-> StrCell(strftime_day(now)),
     Category |-> StrCell(p.category), Amount |-> NumCell(p.amount),
     Notes |-> StrCell(p.notes)]

EarningRow(now, p) ==
    [Date |-> StrCell(strftime_date(now)), Day |-> StrCell(strftime_day(now)),
     Amount |-> NumCell(p.amount), Notes |-> StrCell(p.notes)]

append_row_InsertFirst(sheet, row) == <<row>> \o sheet

\* worksheet.append_row(row)
append_row(sheet, row) == Append(sheet, row)

\* What a handler did: the rows it leaves, the replies it sent, the service
\* calls that failed, the errors it logged and the exception that left it.
Outcome(op, args, sheet, appended, replies, failed, logged, raised) ==
    [op |-> op, args |-> args, sheet |-> sheet, appended |-> appended,
     replies |-> replies, failed |-> failed, logged |-> logged, raised |-> raised]

\* The try/except of spend and of earn, after the arguments are read: p is the
\* parse, row the row to append, store_ok and reply_ok the fate of append_row and
\* of the one or two reply_text calls.
RecordRow(op, args, p, sheet, row, ok_msg, usage_msg, store_ok, reply_ok) ==
    IF p.raised # "none"
    THEN Outcome(op, args, sheet, FALSE, <<Sent(usage_msg, reply_ok[2])>>,
                 IF reply_ok[2] THEN {} ELSE {"chat"}, 1,
                 IF reply_ok[2] THEN "none" ELSE "NetworkError")
    ELSE IF ~store_ok
    THEN Outcome(op, args, sheet, FALSE, <<Sent(usage_msg, reply_ok[2])>>,
                 IF reply_ok[2] THEN {"store"} ELSE {"store", "chat"}, 1,
                 IF reply_ok[2] THEN "none" ELSE "NetworkError")
    ELSE IF reply_ok[1]
    THEN Outcome(op, args, append_row(sheet, row), TRUE, <<Sent(ok_msg, TRUE)>>,
                 {}, 0, "none")
    ELSE Outcome(op, args, append_row(sheet, row), TRUE,
                 <<Sent(ok_msg, FALSE), Sent(usage_msg, reply_ok[2])>>,
                 {"chat"}, 1,
                 IF reply_ok[2] THEN "none" ELSE "NetworkError")

\* Lines 110-119, with the arguments read (p).
SpendParsed(p, args, now, sheet, store_ok, reply_ok) ==
    RecordRow("spend", args, p, sheet,
              IF p.raised = "none" THEN ExpenseRow(now, p) ELSE <<>>,
              IF p.raised = "none"
              THEN [kind |-> "expense_logged", amount |-> p.amount,
                    category |-> p.category, notes |-> p.notes]
              ELSE <<>>,
              [kind |-> "usage_spend"], store_ok, reply_ok)

spend(args, now, sheet, store_ok, reply_ok) ==
    SpendParsed(ParseSpend(args), args, now, sheet, store_ok, reply_ok)

\* Lines 125-134, with the arguments read (p).
EarnParsed(p, args, now, sheet, store_ok, reply_ok) ==
    RecordRow("earn", args, p, sheet,
              IF p.raised = "none" THEN EarningRow(now, p) ELSE <<>>,
              IF p.raised = "none"
              THEN [kind |-> "earning_logged", amount |-> p.amount,
                    notes |-> p.notes]
              ELSE <<>>,
              [kind |-> "usage_earn"], store_ok, reply_ok)

earn(args, now, sheet, store_ok, reply_ok) ==
    EarnParsed(ParseEarn(args), args, now, sheet, store_ok, reply_ok)

start(reply_ok) ==
    Outcome("start", <<>>, <<>>, FALSE, <<Sent([kind |-> "welcome"], reply_ok[1])>>,
            IF reply_ok[1] THEN {} ELSE {"chat"}, 0,
            IF reply_ok[1] THEN "none" ELSE "NetworkError")

\* The text of a weekly summary.
SummaryText(w, t) ==
    [kind |-> "summary", week_start |-> w.start, week_end |-> w.end,
     earnings |-> t.total_earnings, expenses |-> t.total_expenses,
     balance |-> t.balance]

\* Lines 140 and 161: the totals of the span w, or the exception raised on the
\* way: by the date arithmetic, or by get_all_records() when the store fails.
TotalsOfSpan(w, earnings_data, expenses_data, store_ok) ==
    IF w.raised # "none" THEN Raised(w.raised)
    ELSE IF ~store_ok THEN [raised |-> "APIError", span |-> w]
    ELSE [raised |-> "none", span |-> w,
          totals |-> calculate_summary(w.start, w.end, earnings_data, expenses_data)]

\* Lines 139-140, 160-161.
SpanAndTotals(day, earnings_data, expenses_data, store_ok) ==
    TotalsOfSpan(get_week_range(day), earnings_data, expenses_data, store_ok)

SummaryOutcome(replies, failed, logged) ==
    [op |-> "summary", args |-> <<>>, appended |-> FALSE, replies |-> replies,
     failed |-> failed, logged |-> logged,
     raised |-> IF replies[Len(replies)].delivered THEN "none" ELSE "NetworkError"]

\* Lines 142-150, with the span and totals computed (st).
SummaryReply(st, reply_ok) ==
    IF st.raised # "none"
    THEN SummaryOutcome(<<Sent([kind |-> "summary_error"], reply_ok[2])>>,
                        (IF st.raised = "APIError" THEN {"store"} ELSE {})
                            \cup (IF reply_ok[2] THEN {} ELSE {"chat"}), 1)
    ELSE IF reply_ok[1]
    THEN SummaryOutcome(<<Sent(SummaryText(st.span, st.totals), TRUE)>>, {}, 0)
    ELSE SummaryOutcome(<<Sent(SummaryText(st.span, st.totals), FALSE),
                          Sent([kind |-> "summary_error"], reply_ok[2])>>,
                        {"chat"}, 1)

summary(day, earnings_data, expenses_data, store_ok, reply_ok) ==
    SummaryReply(SpanAndTotals(day, earnings_data, expenses_data, store_ok), reply_ok)

last_week_end_SameDay(day) ==
    [raised |-> "none", date |-> day]

\* today - datetime.timedelta(days=1)
last_week_end(day) ==
    IF InRange(toordinal(day) - 1)
    THEN [raised |-> "none", date |-> fromordinal(toordinal(day) - 1)]
    ELSE Raised("OverflowError")

Missing(v) == v \in {"None", ""}

JobOutcome(replies, failed, logged) ==
    [op |-> "job", args |-> <<>>, appended |-> FALSE, replies |-> replies,
     failed |-> failed, logged |-> logged, raised |-> "none"]

\* Lines 163-173, with the span and totals computed (st): a failure is logged.
JobSend(st, delivered) ==
    IF st.raised = "OverflowError"
    THEN JobOutcome(<<>>, {}, 1)
    ELSE IF st.raised # "none"
    THEN [span |-> st.span] @@ JobOutcome(<<>>, {"store"}, 1)
    ELSE [span |-> st.span]
         @@ JobOutcome(<<Sent(SummaryText(st.span, st.totals), delivered)>>,
                       IF delivered THEN {} ELSE {"chat"},
                       IF delivered THEN 0 ELSE 1)

\* Lines 159-161, with last_week_end computed (e).
JobSpan(e, earnings_data, expenses_data, store_ok) ==
    IF e.raised # "none" THEN Raised(e.raised)
    ELSE SpanAndTotals(e.date, earnings_data, expenses_data, store_ok)

\* send_weekly_summary: everything is inside the try.
send_weekly_summary(day, earnings_data, expenses_data, chat_id, store_ok, send_ok) ==
    JobSend(JobSpan(last_week_end(day), earnings_data, expenses_data, store_ok),
            send_ok /\ ~Missing(chat_id))

\* ------------------------------------------------------- the scheduled job

\* AsyncIOScheduler(timezone="Asia/Kolkata"): UTC+05:30 the year round.
SCHEDULER_UTC_OFFSET == 330

\* CronTrigger(day_of_week="mon", hour=10, minute=0), a time of the scheduler's zone.
TRIGGER_WEEKDAY == 0

TRIGGER_MINUTE_OF_DAY == 600

MINUTES_PER_DAY == 24 * 60

\* The offsets from UTC, in minutes, that a host's local time can have.
HostUtcOffsets ==
    { 60 * h : h \in (0 - 12)..14 }
    \cup { 0 - 570, 0 - 210, 0 - 150, 210, 270, 330, 345, 390, 525, 570, 630, 765 }

\* datetime.date.today() on a host at UTC+offset, at the instant the trigger
\* of day trigger_day fires.
HostDateAtTrigger(trigger_day, offset) ==
    LET utc == toordinal(trigger_day) * MINUTES_PER_DAY
                   + TRIGGER_MINUTE_OF_DAY - SCHEDULER_UTC_OFFSET
    IN  fromordinal((utc + offset) \div MINUTES_PER_DAY)

FirstTriggerWeek == toordinal(MkDate(2024, 6, 10))

TriggerDays ==
    { fromordinal(o) : o \in
        { n \in FirstTriggerWeek..(FirstTriggerWeek + 7 * MaxWeeks - 1) :
              weekday(fromordinal(n)) = TRIGGER_WEEKDAY } }

AllSet == [TELEGRAM_TOKEN |-> "set", SHEET_ID |-> "set",
           GOOGLE_CREDENTIALS |-> "key", CHAT_ID |-> "set"]

InitJob ==
    /\ env = AllSet
    /\ phase = "running"
    /\ earnings_sheet = ScenarioEarnings
    /\ expenses_sheet = ScenarioExpenses
    /\ last = Idle
    /\ \E t \in TriggerDays, off \in HostUtcOffsets :
           /\ probe = [fn |-> "job", pc |-> "due", trigger |-> t, utc_offset |-> off]
           /\ today = HostDateAtTrigger(t, off)

FireJob ==
    /\ probe.fn = "job" /\ probe.pc = "due"
    /\ \E store_ok \in BOOLEAN, send_ok \in BOOLEAN :
           last' = send_weekly_summary(today, earnings_sheet, expenses_sheet,
                                       env.CHAT_ID, store_ok, send_ok)
    /\ probe' = [probe EXCEPT !.pc = "fired"]
    /\ UNCHANGED <<env, phase, expenses_sheet, earnings_sheet, today>>

NextJob == FireJob

SpecJob == InitJob /\ [][NextJob]_vars

JobFired == probe.fn = "job" /\ probe.pc = "fired"

\* C7: each time the weekly trigger fires (Monday 10:00 in the scheduler's
\* zone), the span the job aggregates is the Monday-Sunday week that ends the
\* day before the trigger date, whatever the host's local date is then.
C7_JustCompletedWeek ==
    JobFired =>
        /\ "span" \in DOMAIN last
        /\ toordinal(last.span.end) = toordinal(probe.trigger) - 1
        /\ toordinal(last.span.start) = toordinal(probe.trigger) - 7
        /\ weekday(last.span.start) = 0
        /\ weekday(last.span.end) = 6

\* The job ran on a host whose local date was still the Sunday, and summed the
\* week 2024-06-03..2024-06-09 that ended on that day.
C7_Witness ==
    /\ JobFired
    /\ probe.trigger = MkDate(2024, 6, 10)
    /\ today = MkDate(2024, 6, 9)
    /\ Len(last.replies) = 1
    /\ last.replies[1].delivered
    /\ last.replies[1].msg = [kind |-> "summary", week_start |-> MkDate(2024, 6, 3),
                              week_end |-> MkDate(2024, 6, 9), earnings |-> 300,
                              expenses |-> 50, balance |-> 250]

\* ------------------------------------------------------------------ the bot

EnvValues == {"None", "", "set"}

\* GOOGLE_CREDENTIALS may also hold text that is no service-account key.
CredentialValues == {"None", "", "not a key", "key"}

\* Lines 29-30.
RequiredMissing(e) ==
    Missing(e.TELEGRAM_TOKEN) \/ Missing(e.SHEET_ID) \/ Missing(e.GOOGLE_CREDENTIALS)

\* Lines 24-44: where the import of the module ends.
startup(e, store_ok) ==
    IF RequiredMissing(e) THEN "config_error"
    ELSE IF e.GOOGLE_CREDENTIALS # "key" THEN "config_error"
    ELSE IF ~store_ok THEN "store_error"
    ELSE "running"

T12 == <<"1", "2">>

T30 == <<"3", "0">>

T500 == <<"5", "0", "0">>

Wabc == <<"a", "b", "c">>

Wfood == <<"f", "o", "o", "d">>

Wteam == <<"t", "e", "a", "m">>

Wbonus == <<"b", "o", "n", "u", "s">>

Wpayment == <<"p", "a", "y", "m", "e", "n", "t">>

SpendArgs == { <<>>, <<T12>>, <<Wabc, Wfood>>, <<T12, Wfood>>, <<T30, Wfood, Wteam>> }

EarnArgs == { <<>>, <<Wabc>>, <<T500, Wbonus, Wpayment>> }

StartDay == MkDate(2024, 6, 9)

Init ==
    /\ env \in [TELEGRAM_TOKEN : EnvValues, SHEET_ID : EnvValues,
                GOOGLE_CREDENTIALS : CredentialValues, CHAT_ID : EnvValues]
    /\ phase = "boot"
    /\ expenses_sheet = <<>>
    /\ earnings_sheet = <<>>
    /\ today = StartDay
    /\ last = Idle
    /\ probe = NoProbe

Startup ==
    /\ phase = "boot"
    /\ \E store_ok \in BOOLEAN : phase' = startup(env, store_ok)
    /\ UNCHANGED <<env, expenses_sheet, earnings_sheet, today, last, probe>>

Running == phase = "running"

RoomForRow == Len(expenses_sheet) + Len(earnings_sheet) < MaxRows

\* The fate of a handler's reply and of the reply of its except block, which is
\* sent only when something before it failed.
ReplyFates == { <<TRUE, TRUE>>, <<FALSE, TRUE>>, <<FALSE, FALSE>> }

Start ==
    /\ Running
    /\ \E reply_ok \in ReplyFates : last' = start(reply_ok)
    /\ UNCHANGED <<env, phase, expenses_sheet, earnings_sheet, today, probe>>

Spend ==
    /\ Running
    /\ RoomForRow
    /\ \E args \in SpendArgs, store_ok \in BOOLEAN, reply_ok \in ReplyFates :
           LET o == spend(args, today, expenses_sheet, store_ok, reply_ok)
           IN  /\ expenses_sheet' = o.sheet
               /\ last' = o
    /\ UNCHANGED <<env, phase, earnings_sheet, today, probe>>

Earn ==
    /\ Running
    /\ RoomForRow
    /\ \E args \in EarnArgs, store_ok \in BOOLEAN, reply_ok \in ReplyFates :
           LET o == earn(args, today, earnings_sheet, store_ok, reply_ok)
           IN  /\ earnings_sheet' = o.sheet
               /\ last' = o
    /\ UNCHANGED <<env, phase, expenses_sheet, today, probe>>

Summary ==
    /\ Running
    /\ \E store_ok \in BOOLEAN, reply_ok \in ReplyFates :
           last' = summary(today, earnings_sheet, expenses_sheet, store_ok, reply_ok)
    /\ UNCHANGED <<env, phase, expenses_sheet, earnings_sheet, today, probe>>

\* At the trigger's instant the host's date is the trigger's Monday or, on a
\* host far enough behind the scheduler's zone, the Sunday before it.
JobDue == weekday(today) \in {TRIGGER_WEEKDAY, (TRIGGER_WEEKDAY + 6) % 7}

SendWeeklySummary ==
    /\ Running
    /\ JobDue
    /\ \E store_ok \in BOOLEAN, send_ok \in BOOLEAN :
           last' = send_weekly_summary(today, earnings_sheet, expenses_sheet,
                                       env.CHAT_ID, store_ok, send_ok)
    /\ UNCHANGED <<env, phase, expenses_sheet, earnings_sheet, today, probe>>

\* Midnight passes on the host.
Tick ==
    /\ Running
    /\ toordinal(today) - toordinal(StartDay) < MaxDays
    /\ today' = fromordinal(toordinal(today) + 1)
    /\ UNCHANGED <<env, phase, expenses_sheet, earnings_sheet, last, probe>>

Next ==
    \/ Startup
    \/ Start
    \/ Spend
    \/ Earn
    \/ Summary
    \/ SendWeeklySummary
    \/ Tick

Spec == Init /\ [][Next]_vars

\* ------------------------------------------------------ claims about the bot

Digits == {"0", "1", "2", "3", "4", "5", "6", "7", "8", "9"}

\* The text is no number: it is empty or holds a character that is no digit.
NonNumeric(t) == Len(t) = 0 \/ \E i \in 1..Len(t) : t[i] \notin Digits

\* No arguments, /spend with one argument only, or an amount that is no number.
MalformedArgs(op, args) ==
    \/ Len(args) = 0
    \/ op = "spend" /\ Len(args) = 1
    \/ Len(args) > 0 /\ NonNumeric(args[1])

UsageOf(op) == IF op = "spend" THEN [kind |-> "usage_spend"] ELSE [kind |-> "usage_earn"]

\* C4: /spend and /earn with malformed arguments reply with the usage message
\* (it is the one reply the handler sends) and append no row: both row-sets are
\* after the command what they were before it.
C4_MalformedNoAppend ==
    [][ (last'.op \in {"spend", "earn"} /\ MalformedArgs(last'.op, last'.args)) =>
            /\ expenses_sheet' = expenses_sheet
            /\ earnings_sheet' = earnings_sheet
            /\ ~last'.appended
            /\ Len(last'.replies) = 1
            /\ last'.replies[1].msg = UsageOf(last'.op) ]_vars

\* "/spend 12" got the usage reply, and the row logged before it is all the
\* Expenses sheet holds.
C4_Witness ==
    /\ last.op = "spend"
    /\ last.args = <<T12>>
    /\ last.replies = <<Sent([kind |-> "usage_spend"], TRUE)>>
    /\ Len(expenses_sheet) = 1
    /\ earnings_sheet = <<>>

AnyRequiredAbsent ==
    \/ Missing(env.TELEGRAM_TOKEN)
    \/ Missing(env.SHEET_ID)
    \/ Missing(env.GOOGLE_CREDENTIALS)
    \/ Missing(env.CHAT_ID)

\* C5: if any one of the four configuration values (bot token, store
\* identifier, store credentials, recipient of the scheduled push) is absent,
\* startup fails: the bot never runs, and no handler or job does.
C5_FailFast == AnyRequiredAbsent => (phase # "running" /\ last = Idle)

Interactive == {"spend", "earn", "summary"}

FailureReplies == {"usage_spend", "usage_earn", "summary_error"}

\* C8: when a store call or a chat-platform call fails during /spend, /earn or
\* /summary, the user gets the handler's failure reply and no exception leaves
\* the handler.
C8_FailureSurfaced ==
    (last.op \in Interactive /\ last.failed # {}) =>
        /\ last.raised = "none"
        /\ last.replies[Len(last.replies)].delivered
        /\ last.replies[Len(last.replies)].msg.kind \in FailureReplies

IsPrefix(a, b) == Len(a) <= Len(b) /\ SubSeq(b, 1, Len(a)) = a

\* C9: the row-sets are append-only: every step leaves each row-set as it was
\* or adds one row at its end; only /spend changes the expense row-set and only
\* /earn the earnings row-set, and neither changes the other; /start, /summary
\* and the scheduled job change neither.
C9_AppendOnly ==
    [][ /\ IsPrefix(expenses_sheet, expenses_sheet')
        /\ IsPrefix(earnings_sheet, earnings_sheet')
        /\ Len(expenses_sheet') <= Len(expenses_sheet) + 1
        /\ Len(earnings_sheet') <= Len(earnings_sheet) + 1
        /\ expenses_sheet' # expenses_sheet =>
               last'.op = "spend" /\ earnings_sheet' = earnings_sheet
        /\ earnings_sheet' # earnings_sheet =>
               last'.op = "earn" /\ expenses_sheet' = expenses_sheet
        /\ (last' # last /\ last'.op \in {"start", "summary", "job"}) =>
               expenses_sheet' = expenses_sheet /\ earnings_sheet' = earnings_sheet
      ]_vars

\* Two expenses were logged one after the other, and the scheduled job then
\* ran over them.
C9_Witness ==
    /\ Len(expenses_sheet) = 2
    /\ expenses_sheet[1].Amount = NumCell(12)
    /\ expenses_sheet[2].Amount = NumCell(30)
    /\ last.op = "job"

Delivered(o) == { o.replies[i].msg.kind : i \in { j \in 1..Len(o.replies) : o.replies[j].delivered } }

\* C10: for every /spend or /earn whose user receives a reply, the reply agrees
\* with the store: the command appended a row if and only if the reply is the
\* success confirmation, and no usage reply is sent for a command whose row was
\* appended.
C10_ReplyAgreesWithStore ==
    (last.op \in {"spend", "earn"} /\ Delivered(last) # {}) =>
        /\ last.appended <=> Delivered(last) \subseteq {"expense_logged", "earning_logged"}
        /\ ~(last.appended /\ Delivered(last) \cap {"usage_spend", "usage_earn"} # {})

====
